---- MODULE Spec2Model ----
(***************************************************************************)
(* State-machine model of KukaButtonGymEnv                                 *)
(* (src/environments/kuka_button_gym_env.py): construction, reset(),       *)
(* step()/step2(), _termination() and _reward().                           *)
(*                                                                         *)
(* Floats are fixed-point integers in steps of 1/UNIT (1e-4): distances,   *)
(* velocities, commands and rewards all use that scale, so the integer     *)
(* reward 1 is UNIT and the shaped terminal rewards are 50*UNIT and        *)
(* -250*UNIT.  Components of a continuous action are small plain integers. *)
(* The physics engine is an external collaborator: each stepSimulation()   *)
(* leaves a snapshot (button contact, table contact, distance, joint       *)
(* angles) chosen nondeterministically.                                    *)
(***************************************************************************)
EXTENDS Integers, Sequences, FiniteSets, TLC

\* ------------------------------------------------------------ constants
MAX_STEPS == 500
N_CONTACTS_BEFORE_TERMINATION == 5
N_STEPS_OUTSIDE_SAFETY_SPHERE == 5000
N_DISCRETE_ACTIONS == 6
N_RANDOM_ACTIONS_AT_INIT == 5
N_SETTLE_STEPS == 500
\* one unit of the fixed-point scale: 1.0 == UNIT
UNIT == 10000
\* 0.4
MAX_DISTANCE == 4000
\* 0.03
DELTA_V == 300
\* 0.0035
DELTA_V_CONTINUOUS == 35
\* 0.1
DELTA_THETA == 1000
\* 0.01
NOISE_STD == 100
\* 0.0001
NOISE_STD_CONTINUOUS == 1
\* 0.002
NOISE_STD_JOINTS == 20
\* the shaped terminal rewards, 50 and -250
REWARD_BUTTON_PUSHED == 50 * UNIT
REWARD_OUT_OF_BOUNDS == (0 - 250) * UNIT

\* --------------------------------------------------------------- bounds
\* step() calls per episode in the short-horizon specification
MaxCalls == 5
\* step() calls per episode during which contacts may occur, long runs
EarlyCalls == 2
\* step() calls per episode beyond MAX_STEPS + 1 in the long runs
CallsPastCap == 2
\* reward evaluations beyond the out-of-bounds threshold
OutsidePastThreshold == 2
\* calls of an episode in which the arm may still come back inside the sphere
InsideCalls == 2
\* cumulative button contacts before the environment stops producing them
MaxContacts == 5
\* consecutive out-of-bounds evaluations in the short-horizon specification
MaxOutside == 3
\* Gaussian noise is sampled at k standard deviations, |k| <= NoiseSigmas
NoiseSigmas == 1
\* distances are sampled within DistSpread steps around MAX_DISTANCE
DistSpread == 1
\* largest action-repeat count configured
MaxRepeat == 2
\* step() calls per episode in the encoder specification
EncodeCalls == 2
\* discrete indices are sampled this far beyond the valid Python index range
IndexSpread == 1
\* environment objects constructed in one process
MaxInstances == 3
\* seeds passed to seed(): 0..MaxSeed
MaxSeed == 1
\* step() calls per episode in the two-instance specification
PairCalls == 2
\* step() calls the first instance makes alone beforehand
SoloCalls == 1

VARIABLES
    IS_DISCRETE,       \* module flag, line 45
    SHAPE_REWARD,      \* module flag, line 39
    is_discrete,       \* self._is_discrete
    action_joints,     \* self.action_joints
    action_repeat,     \* self._action_repeat
    saver,             \* self.saver is not None (RECORD_DATA)
    scene,             \* reset() has built the scene (self._kuka, button_uid ... exist)
    env_step_counter,  \* self._env_step_counter
    n_contacts,        \* self.n_contacts
    n_steps_outside,   \* self.n_steps_outside (created by reset())
    terminated,        \* self.terminated
    action,            \* self.action, "unset" until a step() stores one
    command,           \* the last command passed to Kuka.applyAction
    sim_ticks,         \* stepSimulation() calls made by the last call
    button_contact,    \* snapshot: gripper touches the button link
    table_contact,     \* snapshot: arm touches the table
    distance,          \* snapshot: |button_pos - gripper_pos|
    joint_positions,   \* snapshot: self._kuka.joint_positions[:7]
    last_call,         \* "init", "reset" or "step"
    last_arg,          \* the argument of the last step() call
    result,            \* "ok" or the exception the last call raised
    reward,            \* reward returned by the last step() that returned
    done,              \* done returned by the last step() that returned
    done_seen,         \* some step() since the last reset() returned done=True
    n_calls,           \* step() calls since the last reset()
    rng_draws,         \* samples the last call drew from self.np_random
    np_seed,           \* the seed self.np_random was created from
    twin,              \* a second instance of the same configuration, run in lock-step
    CONNECTED_TO_SIMULATOR, \* module flag, line 44
    instances,         \* life cycle of each environment object of the process
    clients,           \* slots of the physics server that hold a live connection
    teardown           \* what the last __del__ did

cfgvars == <<IS_DISCRETE, SHAPE_REWARD, is_discrete, action_joints, action_repeat, saver>>

epvars == <<env_step_counter, n_contacts, n_steps_outside, terminated>>

simvars == <<button_contact, table_contact, distance, joint_positions>>

\* the connection life cycle
lifevars == <<CONNECTED_TO_SIMULATOR, instances, clients, teardown>>

\* everything an environment object holds and the calls made on it
envvars == <<cfgvars, scene, epvars, action, command, sim_ticks, simvars,
             last_call, last_arg, result, reward, done, done_seen, n_calls,
             rng_draws, np_seed>>

vars == <<cfgvars, scene, epvars, action, command, sim_ticks, simvars,
          last_call, last_arg, result, reward, done, done_seen, n_calls,
          rng_draws, np_seed, twin, lifevars>>

\* ------------------------------------------------------- values
\* An action value: None, an integer index, or a vector (numpy array).
NoneAction == [kind |-> "none", val |-> <<>>]

\* self.action before any step() has stored one (the attribute does not exist)
UnsetAction == [kind |-> "unset", val |-> <<>>]

IntAction(k) == [kind |-> "int", val |-> <<k>>]

VecAction(v) == [kind |-> "vec", val |-> v]

\* float NaN (0/0 in numpy), outside every other value of the scale
NAN == 0 - (UNIT * UNIT)

Abs(x) == IF x < 0 THEN 0 - x ELSE x

Min(a, b) == IF a < b THEN a ELSE b

\* float product and sum, NaN-propagating
FMul(a, b) == IF a = NAN \/ b = NAN THEN NAN ELSE a * b

FAdd(a, b) == IF a = NAN \/ b = NAN THEN NAN ELSE a + b

\* Python list indexing lst[i]: valid for -len <= i < len, negative from the end
PyIndexOK(n, i) == i >= 0 - n /\ i < n

PyIndex(lst, i) == IF i >= 0 THEN lst[i + 1] ELSE lst[Len(lst) + i + 1]

Const7(x) == [i \in 1..7 |-> x]

\* ------------------------------------------------------- action encoder
\* step(), lines 287-297: the discrete index picks one entry of each table.
DiscreteCommand(a, nz) ==
    LET dv == DELTA_V + nz
        dx == PyIndex(<<0 - dv, dv, 0, 0, 0, 0>>, a)
        dy == PyIndex(<<0, 0, 0 - dv, dv, 0, 0>>, a)
        dz == PyIndex(<<0, 0, 0, 0, 0 - dv, dv>>, a)
    IN  <<dx, dy, dz, 0, 0>>

\* step(), lines 307-315: each of the first three components scaled by dv.
TaskCommand(v, nz) ==
    LET dv == DELTA_V_CONTINUOUS + nz
    IN  <<v[1] * dv, v[2] * dv, v[3] * dv, 0, 0>>

\* step(), lines 300-305: action * d_theta + arm_joints (numpy broadcasting of a
\* one-element action), then the two finger entries.
JointCommand(v, nz, joints) ==
    LET d_theta == DELTA_THETA + nz
        comp(i) == IF Len(v) = 1 THEN v[1] ELSE v[i]
    IN  [i \in 1..9 |-> IF i <= 7 THEN comp(i) * d_theta + joints[i] ELSE 0]

\* step(), lines 280-284: the command step(None) hands to step2.
HoldCommand(joints, byJoints) ==
    IF byJoints THEN [i \in 1..9 |-> IF i <= 7 THEN joints[i] ELSE 0]
    ELSE <<0, 0, 0, 0, 0>>

\* The exception, if any, step() raises while decoding `a` (lines 287-315): a
\* list index out of range or not an integer, a vector too short for action[2],
\* a vector that does not broadcast against the seven joint angles (an integer
\* does, as a scalar).
EncodeError(a, discrete, byJoints) ==
    IF discrete
    THEN IF a.kind # "int" THEN "TypeError"
         ELSE IF PyIndexOK(N_DISCRETE_ACTIONS, a.val[1]) THEN "ok" ELSE "IndexError"
    ELSE IF byJoints
         THEN IF Len(a.val) \in {1, 7} THEN "ok" ELSE "ValueError"
         ELSE IF a.kind # "vec" THEN "TypeError"
              ELSE IF Len(a.val) >= 3 THEN "ok" ELSE "IndexError"

\* The command step() passes to step2 for a decodable action.
Encode(a, nzk, discrete, byJoints, joints) ==
    IF discrete THEN DiscreteCommand(a.val[1], nzk * NOISE_STD)
    ELSE IF byJoints THEN JointCommand(a.val, nzk * NOISE_STD_JOINTS, joints)
    ELSE TaskCommand(a.val, nzk * NOISE_STD_CONTINUOUS)

\* ------------------------------------------------ episode state machine
\* mutant of Termination: the cap compared one step late
Termination_LateCap(term, counter) == term \/ counter > MAX_STEPS + 1

\* _termination(), lines 407-411
Termination(term, counter) == term \/ counter > MAX_STEPS

\* mutant of RepeatLoop: no early exit, every iteration counted
RepeatLoop_NoBreak(i, repeat, term, counter, ticks) ==
    [counter |-> counter + (repeat - i), ticks |-> ticks + (repeat - i)]

\* mutant of RepeatLoop: the counter is advanced before the termination check
RECURSIVE RepeatLoop_CountFirst(_, _, _, _, _)
RepeatLoop_CountFirst(i, repeat, term, counter, ticks) ==
    IF i >= repeat THEN [counter |-> counter, ticks |-> ticks]
    ELSE IF Termination(term, counter + 1)
         THEN [counter |-> counter + 1, ticks |-> ticks + 1]
         ELSE RepeatLoop_CountFirst(i + 1, repeat, term, counter + 1, ticks + 1)

\* mutant of RepeatLoop: the termination check made before the command is sent
RECURSIVE RepeatLoop_CheckFirst(_, _, _, _, _)
RepeatLoop_CheckFirst(i, repeat, term, counter, ticks) ==
    IF i >= repeat \/ Termination(term, counter)
    THEN [counter |-> counter, ticks |-> ticks]
    ELSE RepeatLoop_CheckFirst(i + 1, repeat, term, counter + 1, ticks + 1)

\* step2(), lines 329-334: the repeat loop from iteration i on; yields the
\* counter and the number of applyAction/stepSimulation pairs executed.
RECURSIVE RepeatLoop(_, _, _, _, _)
RepeatLoop(i, repeat, term, counter, ticks) ==
    IF i >= repeat THEN [counter |-> counter, ticks |-> ticks]
    ELSE IF Termination(term, counter)
         THEN [counter |-> counter, ticks |-> ticks + 1]
         ELSE RepeatLoop(i + 1, repeat, term, counter + 1, ticks + 1)

\* _reward(), lines 418-419: int(len(contact_points) > 0)
ContactReward(contact) == IF contact THEN 1 ELSE 0

\* _reward(), line 424
OutOfBounds(dist, table) == dist > MAX_DISTANCE \/ table

\* mutant of RawReward: the contact reward is not overridden
RawReward_ContactFirst(contact, table, dist) ==
    IF contact THEN 1 ELSE IF OutOfBounds(dist, table) THEN 0 - 1 ELSE 0

\* _reward(), lines 419-425: the raw reward, in plain integers
RawReward(contact, table, dist) ==
    IF OutOfBounds(dist, table) THEN 0 - 1 ELSE ContactReward(contact)

\* mutant of NextContacts: one count per tick of the repeat loop
NextContacts_PerTick(nc, contact) == nc + action_repeat * ContactReward(contact)

\* _reward(), line 420
NextContacts(nc, contact) == nc + ContactReward(contact)

\* mutant of NextOutside: the counter is not cleared inside the sphere
NextOutside_NoReset(no, table, dist) == IF OutOfBounds(dist, table) THEN no + 1 ELSE no

\* _reward(), lines 424-428
NextOutside(no, table, dist) == IF OutOfBounds(dist, table) THEN no + 1 ELSE 0

\* mutant of NextTerminated: the contact threshold at its nominal value
NextTerminated_Nominal(term, table, nc, no) ==
    IF table \/ nc >= N_CONTACTS_BEFORE_TERMINATION
             \/ no >= N_STEPS_OUTSIDE_SAFETY_SPHERE - 1
    THEN TRUE ELSE term

\* mutant of NextTerminated: the flag assigned from this evaluation alone
NextTerminated_Overwrite(term, table, nc, no) ==
    table \/ nc >= N_CONTACTS_BEFORE_TERMINATION - 1
          \/ no >= N_STEPS_OUTSIDE_SAFETY_SPHERE - 1

\* _reward(), lines 430-432: the flag after the evaluation, from the updated counters
NextTerminated(term, table, nc, no) ==
    IF table \/ nc >= N_CONTACTS_BEFORE_TERMINATION - 1
             \/ no >= N_STEPS_OUTSIDE_SAFETY_SPHERE - 1
    THEN TRUE ELSE term

\* mutant of ReturnedReward: the terminal rewards given without the flag
ReturnedReward_NoFlag(shape, gdiscrete, term, raw, dist) ==
    IF shape
    THEN IF gdiscrete THEN 0 - dist
         ELSE IF raw > 0 THEN REWARD_BUTTON_PUSHED
         ELSE IF raw < 0 THEN REWARD_OUT_OF_BOUNDS
         ELSE 0 - dist
    ELSE raw * UNIT

\* _reward(), lines 434-448: the value returned, on the fixed-point scale
ReturnedReward(shape, gdiscrete, term, raw, dist) ==
    IF shape
    THEN IF gdiscrete THEN 0 - dist
         ELSE IF term /\ raw > 0 THEN REWARD_BUTTON_PUSHED
         ELSE IF term /\ raw < 0 THEN REWARD_OUT_OF_BOUNDS
         ELSE 0 - dist
    ELSE raw * UNIT

\* ------------------------------------------------------------- sampling
\* Gaussian samples, in standard deviations
NoiseSamples == (0 - NoiseSigmas)..NoiseSigmas

\* distances the snapshot can show: both sides of MAX_DISTANCE and the boundary
Distances == (MAX_DISTANCE - DistSpread)..(MAX_DISTANCE + DistSpread)

\* joint-angle vectors the snapshot can show
JointPoses == {Const7(0), Const7(DELTA_THETA)}

\* discrete indices a caller may pass: the ends of the valid range, the ends of
\* Python's negative range, and IndexSpread beyond each
DiscreteInputs ==
    {IntAction(k) : k \in {0, N_DISCRETE_ACTIONS - 1, 0 - 1, 0 - N_DISCRETE_ACTIONS}
                          \cup ((0 - N_DISCRETE_ACTIONS - IndexSpread)..(0 - N_DISCRETE_ACTIONS - 1))
                          \cup (N_DISCRETE_ACTIONS..(N_DISCRETE_ACTIONS + IndexSpread - 1))}

\* vectors a caller may pass: in range, out of [-1, 1], too short, too long,
\* seven joints, one element
VectorInputs ==
    {VecAction(<<0, 0, 0>>), VecAction(<<1, 0, 0 - 1>>), VecAction(<<2, 0, 0>>),
     VecAction(<<1, 0>>), VecAction(<<1, 0, 0, 1>>),
     VecAction(Const7(1)), VecAction(<<1>>)}

AllInputs == {NoneAction} \cup DiscreteInputs \cup VectorInputs

\* every snapshot stepSimulation() can leave; the joint angles are read in
\* joint-space mode only (lines 215, 229, 282, 300) and held fixed otherwise
Snapshots(byJoints) ==
    [c : BOOLEAN, t : BOOLEAN, d : Distances,
     q : IF byJoints THEN JointPoses ELSE {Const7(0)}]

\* snapshots at the end of reset(): the arm has settled in its rest pose, in
\* contact with neither the button nor the table
RestSnapshots(byJoints) == {sn \in Snapshots(byJoints) : ~sn.c /\ ~sn.t}

\* the configurations: the two module flags, the constructor's is_discrete,
\* ACTION_JOINTS, ACTION_REPEAT and RECORD_DATA
AllConfigs ==
    [g : BOOLEAN, param : BOOLEAN, shape : BOOLEAN, joints : BOOLEAN,
     repeat : 1..MaxRepeat, record : BOOLEAN]

\* ------------------------------------------------- processes and twins
\* environment objects of one process, and the slots of the physics server
\* their connections take (p.connect returns the first free slot)
Instances == 1..MaxInstances

Slots == 0..(MaxInstances - 1)

\* no __del__ has run yet
NoTeardown ==
    [by |-> 0, disconnect |-> FALSE, held |-> FALSE, closed |-> 0, error |-> FALSE]

\* samples reset() draws from self.np_random, lines 222-237: rand() and
\* randint() per warm-up action in discrete mode, one normal() otherwise
ResetDraws(discrete) ==
    IF discrete THEN 2 * N_RANDOM_ACTIONS_AT_INIT ELSE N_RANDOM_ACTIONS_AT_INIT

\* the second instance after __init__: seeded with 0 like the first (line 174),
\* its generator at the same position, its physics server as empty
TwinConstruct ==
    [np_seed |-> 0, aligned |-> TRUE, same_physics |-> TRUE, phase |-> "free",
     prehistory |-> FALSE, scene |-> FALSE,
     env_step_counter |-> 0, n_contacts |-> 0, n_steps_outside |-> 0,
     terminated |-> FALSE, action |-> UnsetAction, command |-> <<>>, sim_ticks |-> 0,
     observation |-> [c |-> FALSE, t |-> FALSE, d |-> 0, q |-> Const7(0)],
     reward |-> 0, done |-> FALSE, result |-> "ok"]

\* -------------------------------------------------------------- actions
\* __init__, lines 95-174, under configuration cfg
Construct(cfg) ==
    /\ IS_DISCRETE = cfg.g
    /\ SHAPE_REWARD = cfg.shape
    /\ is_discrete = (cfg.param /\ cfg.g)
    /\ action_joints = cfg.joints
    /\ action_repeat = cfg.repeat
    /\ saver = cfg.record
    /\ scene = FALSE
    /\ env_step_counter = 0
    /\ n_contacts = 0
    /\ n_steps_outside = 0
    /\ terminated = FALSE
    /\ action = UnsetAction
    /\ command = <<>>
    /\ sim_ticks = 0
    /\ button_contact = FALSE
    /\ table_contact = FALSE
    /\ distance = 0
    /\ joint_positions = Const7(0)
    /\ last_call = "init"
    /\ last_arg = NoneAction
    /\ result = "ok"
    /\ reward = 0
    /\ done = FALSE
    /\ done_seen = FALSE
    /\ n_calls = 0
    /\ rng_draws = 0
    /\ np_seed = 0
    /\ twin = TwinConstruct
    /\ CONNECTED_TO_SIMULATOR = TRUE
    /\ instances = [i \in Instances |-> IF i = 1 THEN "connected" ELSE "none"]
    /\ clients = [k \in Slots |-> IF k = 0 THEN 1 ELSE 0]
    /\ teardown = NoTeardown

\* reset(), lines 221-240: the last of the random warm-up commands.  sign and idx
\* are the discrete draws; x is the draw of np_random.normal(shape), whose first
\* argument is the mean, so one sample is broadcast over all components.
WarmupCommand(discrete, byJoints, joints, sign, idx, x) ==
    IF discrete
    THEN [i \in 1..5 |-> IF i = idx + 1 THEN sign * DELTA_V ELSE 0]
    ELSE IF byJoints
         THEN [i \in 1..9 |-> IF i <= 7 THEN joints[i] + DELTA_THETA * x ELSE 0]
         ELSE LET dir == IF x = 0 THEN NAN ELSE x \div Abs(x)
                  v == FMul(DELTA_V_CONTINUOUS, dir)
              IN  <<FAdd(0, v), FAdd(0, v), FAdd(0, v), 0, 0>>

\* draws of np_random.normal((n,)): mean n, scale 1, and the zero tail value
WarmupSamples(n) == {0} \cup {n + k : k \in NoiseSamples}

\* mutant of Reset: the step counter is not cleared
Reset_KeepCounter(snap, q0, sign, idx, x) ==
    /\ terminated' = FALSE
    /\ n_contacts' = 0
    /\ n_steps_outside' = 0
    /\ scene' = TRUE
    /\ command' = WarmupCommand(is_discrete, action_joints, q0, sign, idx, x)
    /\ sim_ticks' = N_SETTLE_STEPS + N_RANDOM_ACTIONS_AT_INIT
    /\ button_contact' = snap.c
    /\ table_contact' = snap.t
    /\ distance' = snap.d
    /\ joint_positions' = snap.q
    /\ last_call' = "reset"
    /\ result' = "ok"
    /\ done_seen' = FALSE
    /\ n_calls' = 0
    /\ rng_draws' = ResetDraws(is_discrete)
    /\ UNCHANGED <<cfgvars, env_step_counter, action, last_arg, reward, done>>
    /\ UNCHANGED <<np_seed, lifevars>>

\* reset(), lines 182-254
Reset(snap, q0, sign, idx, x) ==
    /\ terminated' = FALSE
    /\ n_contacts' = 0
    /\ n_steps_outside' = 0
    /\ env_step_counter' = 0
    /\ scene' = TRUE
    /\ command' = WarmupCommand(is_discrete, action_joints, q0, sign, idx, x)
    /\ sim_ticks' = N_SETTLE_STEPS + N_RANDOM_ACTIONS_AT_INIT
    /\ button_contact' = snap.c
    /\ table_contact' = snap.t
    /\ distance' = snap.d
    /\ joint_positions' = snap.q
    /\ last_call' = "reset"
    /\ result' = "ok"
    /\ done_seen' = FALSE
    /\ n_calls' = 0
    /\ rng_draws' = ResetDraws(is_discrete)
    /\ UNCHANGED <<cfgvars, action, last_arg, reward, done>>
    /\ UNCHANGED <<np_seed, lifevars>>

\* seed(s), lines 260-267: self.np_random is replaced by a new generator
Seed(s) ==
    /\ np_seed' = s
    /\ rng_draws' = 0
    /\ last_call' = "seed"
    /\ result' = "ok"
    /\ UNCHANGED <<cfgvars, scene, epvars, action, command, sim_ticks, simvars,
                   last_arg, reward, done, done_seen, n_calls, lifevars>>

\* step() called before any reset(): the scene attributes do not exist.  An
\* explicit action is stored (line 286) and decoded first; joint-space decoding
\* reads self._kuka (line 300) before it looks at the action.
StepBeforeReset(a) ==
    /\ ~scene
    /\ action' = IF a = NoneAction THEN action ELSE a
    /\ last_call' = "step"
    /\ last_arg' = a
    /\ result' = IF a = NoneAction \/ (~is_discrete /\ action_joints) THEN "AttributeError"
                 ELSE IF EncodeError(a, is_discrete, action_joints) = "ok" THEN "AttributeError"
                 ELSE EncodeError(a, is_discrete, action_joints)
    /\ n_calls' = n_calls + 1
    /\ rng_draws' = IF a = NoneAction \/ (~is_discrete /\ action_joints) THEN 0 ELSE 1
    /\ UNCHANGED <<cfgvars, scene, epvars, command, sim_ticks, simvars, reward, done, done_seen>>
    /\ UNCHANGED <<np_seed, lifevars>>

\* step() with an action the encoder rejects, lines 286-315: the action is
\* already stored (line 286) and the noise already drawn (lines 290, 303, 309)
\* when the exception is raised.
StepRejected(a) ==
    /\ scene
    /\ a # NoneAction
    /\ EncodeError(a, is_discrete, action_joints) # "ok"
    /\ action' = a
    /\ last_call' = "step"
    /\ last_arg' = a
    /\ result' = EncodeError(a, is_discrete, action_joints)
    /\ n_calls' = n_calls + 1
    /\ rng_draws' = 1
    /\ UNCHANGED <<cfgvars, scene, epvars, command, sim_ticks, simvars, reward, done, done_seen>>
    /\ UNCHANGED <<np_seed, lifevars>>

\* step() then step2(), lines 275-348, for None or a decodable action; nzk is
\* the noise draw and snap the snapshot after the last stepSimulation().
StepAccepted(a, nzk, snap) ==
    /\ scene
    /\ a = NoneAction \/ EncodeError(a, is_discrete, action_joints) = "ok"
    /\ LET cmd == IF a = NoneAction THEN HoldCommand(joint_positions, action_joints)
                  ELSE Encode(a, nzk, is_discrete, action_joints, joint_positions)
           stored == IF a = NoneAction THEN action ELSE a
           loop == RepeatLoop(0, action_repeat, terminated, env_step_counter, 0)
           dn == Termination(terminated, loop.counter)
           raw == RawReward(snap.c, snap.t, snap.d)
           nc == NextContacts(n_contacts, snap.c)
           no == NextOutside(n_steps_outside, snap.t, snap.d)
           term == NextTerminated(terminated, snap.t, nc, no)
           rew == ReturnedReward(SHAPE_REWARD, IS_DISCRETE, term, raw, snap.d)
           raised == saver /\ stored = UnsetAction
       IN  /\ action' = stored
           /\ command' = cmd
           /\ sim_ticks' = loop.ticks
           /\ env_step_counter' = loop.counter
           /\ button_contact' = snap.c
           /\ table_contact' = snap.t
           /\ distance' = snap.d
           /\ joint_positions' = snap.q
           /\ n_contacts' = nc
           /\ n_steps_outside' = no
           /\ terminated' = term
           /\ result' = IF raised THEN "AttributeError" ELSE "ok"
           /\ reward' = IF raised THEN reward ELSE rew
           /\ done' = IF raised THEN done ELSE dn
           /\ done_seen' = IF raised THEN done_seen ELSE (done_seen \/ dn)
    /\ last_call' = "step"
    /\ last_arg' = a
    /\ n_calls' = n_calls + 1
    /\ rng_draws' = IF a = NoneAction THEN 0 ELSE 1
    /\ UNCHANGED <<cfgvars, scene>>
    /\ UNCHANGED <<np_seed, lifevars>>

\* ------------------------------------------------------- specifications
\* reset() with every draw the configured mode makes (lines 222-237) and a
\* snapshot from snaps at the end of the warm-up
ResetIn(snaps) ==
    /\ \E snap \in snaps :
        IF is_discrete
        THEN \E sign \in {0 - 1, 1}, idx \in 0..2 : Reset(snap, joint_positions, sign, idx, 0)
        ELSE IF action_joints
             THEN \E q0 \in JointPoses, x \in WarmupSamples(7) : Reset(snap, q0, 1, 0, x)
             ELSE \E x \in WarmupSamples(3) : Reset(snap, joint_positions, 1, 0, x)
    /\ UNCHANGED twin

\* step() calls of at most maxCalls per episode, with the counters the model
\* lets run on after termination kept within maxC and maxO
StepAcceptedIn(inputs, noise, snaps, maxCalls, maxC, maxO) ==
    \E a \in inputs, nzk \in noise, snap \in snaps :
        /\ n_calls < maxCalls
        /\ StepAccepted(a, nzk, snap)
        /\ n_contacts' <= maxC
        /\ n_steps_outside' <= maxO
        /\ UNCHANGED twin

StepRejectedIn(inputs, maxCalls) ==
    \E a \in inputs : n_calls < maxCalls /\ StepRejected(a) /\ UNCHANGED twin

StepBeforeResetIn(inputs, maxCalls) ==
    \E a \in inputs : n_calls < maxCalls /\ StepBeforeReset(a) /\ UNCHANGED twin

\* ---- Spec: the reward and termination machine over short episodes, in every
\* control mode and shaping mode, every snapshot, task-space commands, one
\* tick per call (ACTION_REPEAT as the source sets it).
RewardConfigs ==
    {cfg \in AllConfigs : ~cfg.joints /\ ~cfg.record /\ cfg.repeat = 1}

RewardInputs == {NoneAction, IntAction(0), VecAction(<<1, 0, 0 - 1>>)}

Init == \E cfg \in RewardConfigs : Construct(cfg)

ResetShort == ResetIn(RestSnapshots(action_joints))

StepShort ==
    StepAcceptedIn(RewardInputs, {0}, Snapshots(action_joints), MaxCalls, MaxContacts, MaxOutside)

Next == ResetShort \/ StepShort

Spec == Init /\ [][Next]_vars

\* ---- SpecLong: discrete mode, shaping disabled, episodes long enough to
\* pass the step cap.  Contacts and excursions happen in the first EarlyCalls
\* calls of an episode; afterwards the arm stays in range, touching nothing.
LongConfigs ==
    {cfg \in AllConfigs : cfg.g /\ cfg.param /\ ~cfg.shape /\ ~cfg.joints /\ ~cfg.record}

LongInputs == {NoneAction, IntAction(0)}

CalmSnapshots ==
    {sn \in Snapshots(FALSE) : ~sn.c /\ ~sn.t /\ sn.d <= MAX_DISTANCE}

InitLong == \E cfg \in LongConfigs : Construct(cfg)

ResetLong == ResetIn({sn \in CalmSnapshots : sn.d = MAX_DISTANCE})

StepEarly ==
    StepAcceptedIn(LongInputs, {0}, Snapshots(FALSE), EarlyCalls, MaxContacts, MaxOutside)

StepLate ==
    /\ n_calls >= EarlyCalls
    /\ StepAcceptedIn(LongInputs, {0}, CalmSnapshots, MAX_STEPS + 1 + CallsPastCap,
                      MaxContacts, MaxOutside)

NextLong == ResetLong \/ StepEarly \/ StepLate

SpecLong == InitLong /\ [][NextLong]_vars

\* ---- SpecPastCap: SpecLong, and every snapshot again on the calls made
\* after MAX_STEPS + 1 calls of an episode, when the episode is done.
StepPastCap ==
    /\ n_calls >= MAX_STEPS + 1
    /\ StepAcceptedIn(LongInputs, {0}, Snapshots(FALSE), MAX_STEPS + 1 + CallsPastCap,
                      MaxContacts, MaxOutside)

NextPastCap == ResetLong \/ StepEarly \/ StepLate \/ StepPastCap

SpecPastCap == InitLong /\ [][NextPastCap]_vars

\* ---- SpecLife: the objects of one process and their connections.  The first
\* object is constructed; further ones are constructed, with or without an
\* exception raised before p.connect, and all are destroyed in any order.
\* p.connect(), lines 132-149: the first free slot of the physics server
FreeSlot == CHOOSE k \in Slots : clients[k] = 0 /\ \A j \in 0..(k - 1) : clients[j] # 0

\* __init__ of object i, lines 95-152; with ok false the saver or the SRL model
\* (lines 123-130) raises and the object is left without a connection.
ConstructInstance(i, ok) ==
    /\ instances[i] = "none"
    /\ instances' = [instances EXCEPT ![i] = IF ok THEN "connected" ELSE "failed"]
    /\ clients' = IF ok THEN [clients EXCEPT ![FreeSlot] = i] ELSE clients
    /\ CONNECTED_TO_SIMULATOR' = (ok \/ CONNECTED_TO_SIMULATOR)
    /\ UNCHANGED <<teardown, envvars, twin>>

\* __del__ of object i, lines 256-258: p.disconnect() takes no client id, so it
\* closes the connection in slot 0 and raises when that slot is free.
Delete(i) ==
    /\ instances[i] \in {"connected", "failed"}
    /\ instances' = [instances EXCEPT ![i] = "deleted"]
    /\ clients' = IF CONNECTED_TO_SIMULATOR THEN [clients EXCEPT ![0] = 0] ELSE clients
    /\ teardown' = [by |-> i,
                    disconnect |-> CONNECTED_TO_SIMULATOR,
                    held |-> \E k \in Slots : clients[k] = i,
                    closed |-> IF CONNECTED_TO_SIMULATOR THEN clients[0] ELSE 0,
                    error |-> CONNECTED_TO_SIMULATOR /\ clients[0] = 0]
    /\ UNCHANGED <<CONNECTED_TO_SIMULATOR, envvars, twin>>

ConstructAny == \E i \in Instances, ok \in BOOLEAN : ConstructInstance(i, ok)

DeleteAny == \E i \in Instances : Delete(i)

NextLife == ConstructAny \/ DeleteAny

SpecLife == InitLong /\ [][NextLife]_vars

\* ---- SpecPair: two instances of one configuration.  The first may run alone
\* for a while; then both call seed(), reset() and step() in lock-step with
\* the same arguments.  A generator yields the same samples as another one
\* exactly when both were created from the same seed and have drawn equally
\* often; the physics leaves the same snapshot in both servers exactly when
\* both were rebuilt by reset() and have received the same commands since.
\* mutant of StreamAfterSeed: seed() reseeds nothing, the old stream goes on
StreamAfterSeed_Kept(aligned) == aligned

\* seed(), line 266: both generators are new, hence at the same position
StreamAfterSeed(aligned) == TRUE

\* the two generators yield the same samples
Synced == twin.aligned /\ twin.np_seed = np_seed

\* reset() of the second instance, lines 182-254
TwinReset(tw, cmd, snap) ==
    [tw EXCEPT !.terminated = FALSE, !.n_contacts = 0, !.n_steps_outside = 0,
               !.env_step_counter = 0, !.scene = TRUE, !.command = cmd,
               !.sim_ticks = N_SETTLE_STEPS + N_RANDOM_ACTIONS_AT_INIT,
               !.observation = snap, !.result = "ok"]

\* step() of the second instance, lines 275-348, after its reset()
TwinStep(tw, a, nzk, snap) ==
    IF a # NoneAction /\ EncodeError(a, is_discrete, action_joints) # "ok"
    THEN [tw EXCEPT !.action = a, !.result = EncodeError(a, is_discrete, action_joints)]
    ELSE LET cmd == IF a = NoneAction THEN HoldCommand(tw.observation.q, action_joints)
                    ELSE Encode(a, nzk, is_discrete, action_joints, tw.observation.q)
             stored == IF a = NoneAction THEN tw.action ELSE a
             loop == RepeatLoop(0, action_repeat, tw.terminated, tw.env_step_counter, 0)
             dn == Termination(tw.terminated, loop.counter)
             raw == RawReward(snap.c, snap.t, snap.d)
             nc == NextContacts(tw.n_contacts, snap.c)
             no == NextOutside(tw.n_steps_outside, snap.t, snap.d)
             term == NextTerminated(tw.terminated, snap.t, nc, no)
             rew == ReturnedReward(SHAPE_REWARD, IS_DISCRETE, term, raw, snap.d)
             raised == saver /\ stored = UnsetAction
         IN  [tw EXCEPT !.action = stored, !.command = cmd, !.sim_ticks = loop.ticks,
                        !.env_step_counter = loop.counter, !.observation = snap,
                        !.n_contacts = nc, !.n_steps_outside = no, !.terminated = term,
                        !.result = IF raised THEN "AttributeError" ELSE "ok",
                        !.reward = IF raised THEN tw.reward ELSE rew,
                        !.done = IF raised THEN tw.done ELSE dn]

PairConfigs ==
    {cfg \in AllConfigs : cfg.g /\ ~cfg.shape /\ ~cfg.joints /\ ~cfg.record /\ cfg.repeat = 1}

PairInputs == {NoneAction, IntAction(0), IntAction(N_DISCRETE_ACTIONS), VecAction(<<1, 0, 0 - 1>>)}

PairSnapshots == {sn \in Snapshots(FALSE) : ~sn.t /\ sn.d = MAX_DISTANCE}

PairNoise == {0, NoiseSigmas}

Seeds == 0..MaxSeed

InitPair == \E cfg \in PairConfigs : Construct(cfg)

PairRest == {sn \in RestSnapshots(FALSE) : sn.d = MAX_DISTANCE}

\* the first instance alone: its generator and its physics server move on
Alone == [twin EXCEPT !.aligned = FALSE, !.same_physics = FALSE,
                      !.phase = "free", !.prehistory = TRUE]

SoloReset ==
    /\ twin.phase = "free"
    /\ ~scene
    /\ \E snap \in PairRest :
          IF is_discrete
          THEN \E sign \in {0 - 1, 1} : Reset(snap, joint_positions, sign, 0, 0)
          ELSE \E x \in WarmupSamples(3) : Reset(snap, joint_positions, 1, 0, x)
    /\ twin' = Alone

SoloStep ==
    /\ twin.phase = "free"
    /\ scene
    /\ n_calls < SoloCalls
    /\ \E a \in PairInputs, snap \in PairSnapshots :
          /\ a = NoneAction \/ EncodeError(a, is_discrete, action_joints) = "ok"
          /\ StepAccepted(a, 0, snap)
    /\ twin' = Alone

\* both instances call seed(), with seeds sA and sB
PairSeed ==
    \E sA \in Seeds, sB \in Seeds :
        /\ twin.phase = "free"
        /\ Seed(sA)
        /\ twin' = [twin EXCEPT !.np_seed = sB, !.aligned = StreamAfterSeed(twin.aligned),
                                !.phase = "seeded"]

\* both instances call reset(): both servers are rebuilt, the warm-up commands
\* are the same when the draws are
PairReset ==
    /\ twin.phase = "seeded"
    /\ \E snap \in PairRest, snapB \in PairRest,
          sign \in {0 - 1, 1}, signB \in {0 - 1, 1},
          x \in WarmupSamples(3), xB \in WarmupSamples(3) :
          /\ is_discrete => (x = 0 /\ xB = 0)
          /\ ~is_discrete => (sign = 1 /\ signB = 1)
          /\ Synced => (signB = sign /\ xB = x /\ snapB = snap)
          /\ Reset(snap, joint_positions, sign, 0, x)
          /\ twin' = [TwinReset(twin,
                                WarmupCommand(is_discrete, action_joints,
                                              twin.observation.q, signB, 0, xB),
                                snapB)
                        EXCEPT !.same_physics = Synced, !.phase = "running"]

\* both instances call step() with the same action
PairStep ==
    /\ twin.phase = "running"
    /\ n_calls < PairCalls
    /\ \E a \in PairInputs, nzk \in PairNoise, nzkB \in PairNoise,
          snap \in PairSnapshots, snapB \in PairSnapshots :
          /\ Synced => nzkB = nzk
          /\ IF a # NoneAction /\ EncodeError(a, is_discrete, action_joints) # "ok"
             THEN /\ nzk = 0 /\ nzkB = 0 /\ snap = snapB /\ ~snap.c
                  /\ StepRejected(a)
                  /\ twin' = TwinStep(twin, a, nzkB, snapB)
             ELSE LET tw == TwinStep(twin, a, nzkB, snapB)
                      same == /\ twin.same_physics
                              /\ tw.command = command'
                              /\ tw.sim_ticks = sim_ticks'
                  IN  /\ StepAccepted(a, nzk, snap)
                      /\ same => snapB = snap
                      /\ n_contacts' <= MaxContacts
                      /\ n_steps_outside' <= MaxOutside
                      /\ twin' = [tw EXCEPT !.same_physics = same]

NextPair == SoloReset \/ SoloStep \/ PairSeed \/ PairReset \/ PairStep

SpecPair == InitPair /\ [][NextPair]_vars

\* ---- SpecOutside: discrete mode, shaping disabled, episodes long enough to
\* reach the out-of-bounds threshold.  No button contact; the arm may touch the
\* table or be inside the sphere during the first InsideCalls calls of an
\* episode and stays outside it, off the table, afterwards.
OutsideSnapshots == {sn \in Snapshots(FALSE) : ~sn.c}

FarSnapshots == {sn \in OutsideSnapshots : ~sn.t /\ sn.d > MAX_DISTANCE}

ResetOutside == ResetIn({sn \in CalmSnapshots : sn.d = MAX_DISTANCE})

StepInside ==
    StepAcceptedIn({IntAction(0)}, {0}, OutsideSnapshots, InsideCalls, 0,
                   N_STEPS_OUTSIDE_SAFETY_SPHERE)

StepOutside ==
    /\ n_calls >= InsideCalls
    /\ StepAcceptedIn({IntAction(0)}, {0}, FarSnapshots,
                      N_STEPS_OUTSIDE_SAFETY_SPHERE - 1 + OutsidePastThreshold, 0,
                      N_STEPS_OUTSIDE_SAFETY_SPHERE - 1 + OutsidePastThreshold)

NextOutsideRun == ResetOutside \/ StepInside \/ StepOutside

SpecOutside == InitLong /\ [][NextOutsideRun]_vars

\* ---- SpecEncode: the action encoder in every control mode, with and without
\* the episode saver, every input and noise draw, over the first calls of an
\* episode with the arm in range and off the table.
EncodeConfigs == {cfg \in AllConfigs : ~cfg.shape /\ cfg.repeat = 1}

EncodeSnapshots(byJoints) ==
    {sn \in Snapshots(byJoints) : ~sn.t /\ sn.d = MAX_DISTANCE}

InitEncode == \E cfg \in EncodeConfigs : Construct(cfg)

ResetEncode == ResetIn({sn \in EncodeSnapshots(action_joints) : ~sn.c})

StepBeforeResetEncode == StepBeforeResetIn(AllInputs, EncodeCalls)

StepRejectedEncode == StepRejectedIn(AllInputs, EncodeCalls)

StepAcceptedEncode ==
    StepAcceptedIn(AllInputs, NoiseSamples, EncodeSnapshots(action_joints), EncodeCalls,
                   MaxContacts, MaxOutside)

NextEncode ==
    ResetEncode \/ StepBeforeResetEncode \/ StepRejectedEncode \/ StepAcceptedEncode

SpecEncode == InitEncode /\ [][NextEncode]_vars

\* ----------------------------------------------------------- properties
\* the transition is a step() call that returned (observation, reward, done, {})
StepReturned == n_calls' = n_calls + 1 /\ result' = "ok"

\* the state is the one a returning step() left
AfterStep == last_call = "step" /\ result = "ok"

\* C2: the reward evaluation that counts contact number
\* N_CONTACTS_BEFORE_TERMINATION - 1 (the 4th, not the 5th) sets the terminated
\* flag, and an evaluation that has counted fewer contacts, sees no table
\* contact and has not reached the out-of-bounds threshold does not set it.
C2_ContactBoundary ==
    [][StepReturned =>
        /\ (n_contacts = 3 /\ n_contacts' = 4) => terminated'
        /\ (~terminated /\ n_contacts' < 4 /\ ~table_contact'
              /\ n_steps_outside' < N_STEPS_OUTSIDE_SAFETY_SPHERE - 1) => ~terminated']_vars

\* four step() calls, the flag raised by the fourth evaluation (done, taken
\* before it, is still false) with no table contact and the arm in range
C2_Witness ==
    /\ AfterStep /\ ~done /\ terminated
    /\ n_calls = 4 /\ n_contacts = 4
    /\ button_contact /\ ~table_contact /\ n_steps_outside = 0

\* C6: with shaping disabled a returning step() yields -1 when the end effector
\* is farther than MAX_DISTANCE or touches the table, otherwise 1 when the
\* gripper touches the button on this tick, otherwise 0.
C6_RawReward ==
    (AfterStep /\ ~SHAPE_REWARD) =>
        /\ reward \in {0 - UNIT, 0, UNIT}
        /\ reward = IF distance > MAX_DISTANCE \/ table_contact THEN 0 - UNIT
                    ELSE IF button_contact THEN UNIT ELSE 0

\* a button contact overridden to -1 by the distance, and a plain contact
C6_Witness ==
    /\ AfterStep /\ ~SHAPE_REWARD /\ ~is_discrete
    /\ button_contact /\ distance > MAX_DISTANCE /\ ~table_contact
    /\ reward = 0 - UNIT /\ terminated

\* the causes of a terminal transition in the step just taken
ByContact == button_contact' /\ n_contacts' >= N_CONTACTS_BEFORE_TERMINATION - 1

BySafety ==
    table_contact' \/ n_steps_outside' >= N_STEPS_OUTSIDE_SAFETY_SPHERE - 1

\* C7 as stated: shaped, continuous: +50 on the evaluation that terminates the
\* episode through button contact, -250 on the one that terminates it through a
\* safety violation, and -distance on every evaluation that is no terminal
\* transition.
C7_AsStated ==
    [][(StepReturned /\ SHAPE_REWARD /\ ~IS_DISCRETE) =>
        IF ~terminated /\ terminated'
        THEN /\ (ByContact /\ ~BySafety) => reward' = REWARD_BUTTON_PUSHED
             /\ (BySafety /\ ~ByContact) => reward' = REWARD_OUT_OF_BOUNDS
        ELSE reward' = 0 - distance']_vars

\* C7 amended: shaped, IS_DISCRETE false: +50 whenever the flag is set after the
\* evaluation and the gripper touches the button in range and off the table on
\* this tick, -250 whenever the flag is set and the arm is out of range or on the
\* table on this tick, -distance otherwise.
C7_ShapedContinuous ==
    (AfterStep /\ SHAPE_REWARD /\ ~IS_DISCRETE) =>
        reward = IF terminated /\ (distance > MAX_DISTANCE \/ table_contact)
                 THEN REWARD_OUT_OF_BOUNDS
                 ELSE IF terminated /\ button_contact THEN REWARD_BUTTON_PUSHED
                 ELSE 0 - distance

\* +50 returned again by a step() made after the terminal transition
C7_Witness ==
    /\ AfterStep /\ SHAPE_REWARD /\ ~IS_DISCRETE
    /\ done /\ terminated /\ reward = REWARD_BUTTON_PUSHED

\* the episode is RUNNING: not terminated and not past the step cap
Running == ~terminated /\ env_step_counter <= MAX_STEPS

\* C1: once a step() has returned done=True, every later step() that returns
\* before the next reset() returns done=True.
C1_DoneMonotone ==
    [][(done_seen /\ StepReturned) => done']_vars

\* done returned again, by the step cap alone, on the call after the one that
\* first hit the cap
C1_Witness ==
    /\ AfterStep /\ done /\ ~terminated
    /\ action_repeat = 1 /\ n_calls = MAX_STEPS + 2 /\ env_step_counter = MAX_STEPS + 1

\* C4: discrete, unshaped: a run of MAX_STEPS + 1 step() calls after reset()
\* with no button contact and no table contact has returned done=True, at the
\* latest on call MAX_STEPS + 1.
C4_StepCap ==
    (AfterStep /\ n_calls >= MAX_STEPS + 1 /\ n_contacts = 0 /\ ~terminated) =>
        done /\ done_seen

\* the 501st step(0) of a contact-free episode, one tick per call
C4_Witness ==
    /\ AfterStep /\ n_calls = MAX_STEPS + 1 /\ action_repeat = 1
    /\ last_arg = IntAction(0) /\ action = IntAction(0)
    /\ n_contacts = 0 /\ ~terminated /\ done /\ env_step_counter = MAX_STEPS + 1

\* C5 as stated: every returning step() made while RUNNING raises step_count by
\* exactly the action-repeat count; step_count decreases only in reset(), to 0.
C5_AsStated ==
    [][/\ (StepReturned /\ Running) => env_step_counter' = env_step_counter + action_repeat
       /\ env_step_counter' < env_step_counter => (last_call' = "reset" /\ env_step_counter' = 0)]_vars

\* C5 amended: a returning step() made while RUNNING raises step_count by the
\* action-repeat count, or by MAX_STEPS + 1 - step_count when that is smaller
\* (the repeat loop stops once the count exceeds MAX_STEPS); no step() lowers
\* it; it decreases only in reset(), to 0.
C5_StepCount ==
    [][/\ (StepReturned /\ Running) =>
             /\ env_step_counter' = env_step_counter
                    + Min(action_repeat, MAX_STEPS + 1 - env_step_counter)
             /\ env_step_counter' > env_step_counter
       /\ n_calls' = n_calls + 1 => env_step_counter' >= env_step_counter
       /\ env_step_counter' < env_step_counter => (last_call' = "reset" /\ env_step_counter' = 0)]_vars

\* the call that crosses the cap in the middle of its repeat loop: two ticks
\* simulated, one counted
C5_Witness ==
    /\ AfterStep /\ action_repeat = 2 /\ sim_ticks = 2
    /\ env_step_counter = MAX_STEPS + 1 /\ n_calls = (MAX_STEPS \div 2) + 1

\* C8: reset() leaves step_count, contact_count and steps_outside_safety at 0
\* and the terminated flag false, and the first step() after it does not return
\* done=True.
C8_ResetFresh ==
    [][/\ last_call' = "reset" =>
             /\ env_step_counter' = 0 /\ n_contacts' = 0 /\ n_steps_outside' = 0
             /\ ~terminated' /\ ~done_seen'
       /\ (last_call = "reset" /\ StepReturned) => ~done']_vars

\* reset() called on an episode whose last step() returned done=True
C8_Witness ==
    /\ last_call = "reset" /\ done /\ action = IntAction(0)
    /\ env_step_counter = 0 /\ ~terminated /\ n_contacts = 0 /\ n_steps_outside = 0

\* C3: every reward evaluation with the end effector farther than MAX_DISTANCE
\* or on the table adds 1 to the out-of-bounds counter, every other one clears
\* it; the flag is set once the counter reaches
\* N_STEPS_OUTSIDE_SAFETY_SPHERE - 1, and below that value this rule does not
\* set it.
C3_OutOfBounds ==
    [][StepReturned =>
        /\ (distance' > MAX_DISTANCE \/ table_contact') =>
               n_steps_outside' = n_steps_outside + 1
        /\ ~(distance' > MAX_DISTANCE \/ table_contact') => n_steps_outside' = 0
        /\ n_steps_outside' >= N_STEPS_OUTSIDE_SAFETY_SPHERE - 1 => terminated'
        /\ (~terminated /\ n_steps_outside' < N_STEPS_OUTSIDE_SAFETY_SPHERE - 1
              /\ ~table_contact' /\ n_contacts' < N_CONTACTS_BEFORE_TERMINATION - 1)
               => ~terminated']_vars

\* the flag set by the counter alone: every evaluation of the episode was out
\* of range, none touched the table, and the last one made the count 4999
C3_Witness ==
    /\ AfterStep /\ terminated /\ ~table_contact /\ n_contacts = 0
    /\ n_steps_outside = N_STEPS_OUTSIDE_SAFETY_SPHERE - 1
    /\ n_calls = N_STEPS_OUTSIDE_SAFETY_SPHERE - 1
    /\ reward = 0 - UNIT

\* C9 as stated: after reset(), step(None) returns in every mode, hands the
\* manipulator the zero command (the current joint angles and two zeros in
\* joint-space mode), and runs the sub-steps and one reward evaluation.
C9_AsStated ==
    [][(scene /\ n_calls' = n_calls + 1 /\ last_arg' = NoneAction) =>
        /\ result' = "ok"
        /\ command' = IF action_joints
                      THEN joint_positions \o <<0, 0>>
                      ELSE <<0, 0, 0, 0, 0>>
        /\ sim_ticks' >= 1
        /\ n_contacts' = n_contacts + (IF button_contact' THEN 1 ELSE 0)]_vars

\* an action matches the configured mode: an index in 0..5, or a vector of 3
\* (task space) or 7 (joint space) components in [-1, 1]
MatchesMode(a) ==
    IF is_discrete THEN a.kind = "int" /\ a.val[1] \in 0..(N_DISCRETE_ACTIONS - 1)
    ELSE /\ a.kind = "vec"
         /\ Len(a.val) = (IF action_joints THEN 7 ELSE 3)
         /\ \A i \in 1..Len(a.val) : a.val[i] \in (0 - 1)..1

\* C10 as stated: after reset(), step(action) raises for every action that does
\* not match the configured mode.
C10_AsStated ==
    (last_call = "step" /\ scene /\ last_arg # NoneAction /\ ~MatchesMode(last_arg)) =>
        result # "ok"

\* C12 as stated: the step() whose reward evaluation raises the terminated flag
\* returns done=True itself.
C12_AsStated ==
    [][(StepReturned /\ ~terminated /\ terminated') => done']_vars

\* C13 as stated: with shaping enabled the reward follows the mode of the
\* instance: -distance when the instance is discrete, and the +50 / -250 /
\* -distance scheme when it is continuous, whatever the module flag says.
C13_AsStated ==
    (AfterStep /\ SHAPE_REWARD) =>
        reward = IF is_discrete THEN 0 - distance
                 ELSE IF terminated /\ (distance > MAX_DISTANCE \/ table_contact)
                      THEN REWARD_OUT_OF_BOUNDS
                 ELSE IF terminated /\ button_contact THEN REWARD_BUTTON_PUSHED
                 ELSE 0 - distance

\* C14: a returning step() adds exactly one to the contact counter when the
\* gripper touches the button on the evaluated tick and leaves it unchanged
\* otherwise, however many ticks the repeat loop ran and whatever the reward
\* was overridden to; only reset() lowers the counter.
C14_ContactCounter ==
    [][/\ StepReturned => n_contacts' = n_contacts + (IF button_contact' THEN 1 ELSE 0)
       /\ n_contacts' < n_contacts => (last_call' = "reset" /\ n_contacts' = 0)]_vars

\* two calls of two ticks each, both counted once, the second although the arm
\* is on the table and its reward is -1
C14_Witness ==
    /\ AfterStep /\ action_repeat = 2 /\ sim_ticks = 2
    /\ n_calls = 2 /\ n_contacts = 2
    /\ button_contact /\ table_contact /\ reward = 0 - UNIT

\* C18: the step counter never exceeds MAX_STEPS + 1; a returning step() that
\* leaves it above MAX_STEPS returns done=True; and the terminated flag is
\* raised by table contact, the contact threshold or the out-of-bounds
\* threshold only, never by the step cap.
C18_CounterBound ==
    [][/\ env_step_counter' <= MAX_STEPS + 1
       /\ (StepReturned /\ env_step_counter' > MAX_STEPS) => done'
       /\ (StepReturned /\ ~terminated /\ terminated') =>
              \/ table_contact'
              \/ n_contacts' >= N_CONTACTS_BEFORE_TERMINATION - 1
              \/ n_steps_outside' >= N_STEPS_OUTSIDE_SAFETY_SPHERE - 1]_vars

\* two ticks per call: the call after the one that passed the cap runs a single
\* tick, leaves the counter at MAX_STEPS + 1 and returns done with the flag down
C18_Witness ==
    /\ AfterStep /\ done /\ ~terminated
    /\ action_repeat = 2 /\ sim_ticks = 1
    /\ env_step_counter = MAX_STEPS + 1 /\ n_calls = (MAX_STEPS \div 2) + 2

\* the episode is done when step() is entered
DoneAtEntry == Termination(terminated, env_step_counter)

\* the counters as one reward evaluation leaves them
CountersUpdated ==
    /\ n_contacts' = n_contacts + (IF button_contact' THEN 1 ELSE 0)
    /\ n_steps_outside' =
          IF distance' > MAX_DISTANCE \/ table_contact' THEN n_steps_outside + 1 ELSE 0

\* C19 as stated: a step() entered when the episode is done leaves the step
\* counter and the terminated flag unchanged, runs one tick and one reward
\* evaluation that updates the contact and out-of-bounds counters.
C19_AsStated ==
    [][(StepReturned /\ DoneAtEntry) =>
          /\ env_step_counter' = env_step_counter
          /\ terminated' = terminated
          /\ sim_ticks' = 1
          /\ CountersUpdated]_vars

\* C19 amended: a step() entered when the episode is done leaves the step
\* counter unchanged and never lowers the terminated flag (the evaluation
\* still raises it when the episode was done by the step cap alone), runs one
\* tick and one reward evaluation that updates both counters.
C19_DoneFrame ==
    [][(StepReturned /\ DoneAtEntry) =>
          /\ env_step_counter' = env_step_counter
          /\ terminated => terminated'
          /\ sim_ticks' = 1
          /\ CountersUpdated]_vars

\* two ticks configured, one run: a call made after the cap whose evaluation
\* counts a button contact and a step on the table, and raises the flag
C19_Witness ==
    /\ AfterStep /\ done /\ terminated
    /\ action_repeat = 2 /\ sim_ticks = 1
    /\ env_step_counter = MAX_STEPS + 1 /\ n_calls = MAX_STEPS + 2
    /\ button_contact /\ table_contact /\ n_contacts = 1 /\ n_steps_outside = 1

\* the number of nonzero entries among the first n of a command
RECURSIVE NonZero(_, _)
NonZero(cmd, n) ==
    IF n = 0 THEN 0 ELSE NonZero(cmd, n - 1) + (IF cmd[n] = 0 THEN 0 ELSE 1)

\* C15 as stated: in discrete mode every index 0..5 yields a command with
\* exactly one nonzero entry among dx, dy, dz, of magnitude DELTA_V plus the
\* noise, with both remaining entries zero, and no index yields a positive dz.
C15_AsStated ==
    (AfterStep /\ is_discrete /\ last_arg.kind = "int"
       /\ last_arg.val[1] \in 0..(N_DISCRETE_ACTIONS - 1)) =>
        /\ NonZero(command, 3) = 1
        /\ \A i \in 1..3 :
              command[i] # 0 => Abs(Abs(command[i]) - DELTA_V) <= NoiseSigmas * NOISE_STD
        /\ command[4] = 0 /\ command[5] = 0
        /\ command[3] <= 0

\* C16 as stated: the command reset() sends during its warm-up is never built
\* from a division by a zero norm.
C16_AsStated ==
    last_call = "reset" => \A i \in DOMAIN command : command[i] # NAN

\* C20 as stated: a step() that raises because the encoder rejects its action
\* leaves the episode counters, the terminated flag, the simulation, the stored
\* last action and the position of the random stream as they were.
C20_AsStated ==
    [][(n_calls' = n_calls + 1 /\ scene /\ last_arg' # NoneAction
          /\ EncodeError(last_arg', is_discrete, action_joints) # "ok") =>
          /\ UNCHANGED <<epvars, simvars, command>>
          /\ action' = action
          /\ rng_draws' = 0]_vars

\* C17 as stated: __del__ invokes p.disconnect() only while a connection that
\* the object itself acquired is live, closes that connection and no other,
\* and does not raise.
C17_AsStated ==
    teardown.disconnect =>
        /\ teardown.held
        /\ teardown.closed = teardown.by
        /\ ~teardown.error

====
